---- MODULE Spec2Model ----
(***************************************************************************)
(* Cornucopia Clothoid primitive (src/Cornucopia/Clothoid.cpp).            *)
(*                                                                         *)
(* A `double` is modelled exactly: it is either one of the IEEE special    *)
(* values NaN, +Inf, -Inf, or a finite value written as a Laurent          *)
(* polynomial in pi with rational coefficients, so that PI, HALFPI, the    *)
(* quarter-turn values of cos and sin, and the sums, products and          *)
(* quotients the code forms are all computed without rounding.  Rounding   *)
(* error of the binary format is not modelled.                             *)
(***************************************************************************)
EXTENDS Integers, Sequences, FiniteSets, TLC

(* ------------------------------------------------------------------ *)
(* Bounds of the model                                                 *)
(* ------------------------------------------------------------------ *)
MaxOps == 2      \* number of trim/flip calls explored after construction

(* Val({e : v \in {x}}) is e with v standing for the value of x *)
Val(S) == CHOOSE r \in S : TRUE

(* ------------------------------------------------------------------ *)
(* Rationals <<n, d>>, d > 0, in lowest terms                          *)
(* ------------------------------------------------------------------ *)
IAbs(n) == IF n < 0 THEN 0 - n ELSE n

RECURSIVE GCD(_, _)
GCD(a, b) ==
    Val({ IF bv = 0 THEN av ELSE GCD(bv, av % bv) : av \in {a}, bv \in {b} })

RNorm(n, d) ==
    Val({ IF dv < 0 THEN <<(0 - nv) \div g, (0 - dv) \div g>>
          ELSE <<nv \div g, dv \div g>>
          : nv \in {n}, dv \in {d}, g \in {GCD(IAbs(n), IAbs(d))} })

RZero == <<0, 1>>
RAdd(x, y) ==
    Val({ RNorm(xv[1] * yv[2] + yv[1] * xv[2], xv[2] * yv[2])
          : xv \in {x}, yv \in {y} })
RMul(x, y) ==
    Val({ RNorm(xv[1] * yv[1], xv[2] * yv[2]) : xv \in {x}, yv \in {y} })
RInv(x) ==
    Val({ IF xv[1] < 0 THEN <<0 - xv[2], 0 - xv[1]>> ELSE <<xv[2], xv[1]>>
          : xv \in {x} })

RECURSIVE RPow(_, _)
RPow(x, n) == IF n = 0 THEN <<1, 1>> ELSE RMul(x, RPow(x, n - 1))

IsSquare(n) == \E r \in 0..n : r * r = n
(* integer square root of a perfect square; no value otherwise *)
ISqrt(n) == CHOOSE r \in 0..n : r * r = n

(* ------------------------------------------------------------------ *)
(* Finite values: the terms <<e, n, d>> of  sum (n/d) * pi^e ,         *)
(* by increasing e, with no zero coefficient                           *)
(* ------------------------------------------------------------------ *)
PTerm(e, r) == Val({ IF rv[1] = 0 THEN <<>> ELSE <<<<e, rv[1], rv[2]>>>> : rv \in {r} })

RECURSIVE PAdd(_, _)
PAdd(a, b) ==
    Val({ IF av = <<>> THEN bv
          ELSE IF bv = <<>> THEN av
          ELSE IF av[1][1] < bv[1][1] THEN <<av[1]>> \o PAdd(Tail(av), bv)
          ELSE IF bv[1][1] < av[1][1] THEN <<bv[1]>> \o PAdd(av, Tail(bv))
          ELSE PTerm(av[1][1], RAdd(<<av[1][2], av[1][3]>>, <<bv[1][2], bv[1][3]>>))
                   \o PAdd(Tail(av), Tail(bv))
          : av \in {a}, bv \in {b} })

RECURSIVE PNeg(_)
PNeg(a) ==
    Val({ IF av = <<>> THEN <<>>
          ELSE <<<<av[1][1], 0 - av[1][2], av[1][3]>>>> \o PNeg(Tail(av))
          : av \in {a} })

(* the product of the term x and the finite value b *)
RECURSIVE PScale(_, _)
PScale(x, b) ==
    Val({ IF bv = <<>> THEN <<>>
          ELSE PTerm(xv[1] + bv[1][1], RMul(<<xv[2], xv[3]>>, <<bv[1][2], bv[1][3]>>))
                   \o PScale(xv, Tail(bv))
          : xv \in {x}, bv \in {b} })

RECURSIVE PMul(_, _)
PMul(a, b) ==
    Val({ IF av = <<>> THEN <<>>
          ELSE PAdd(PScale(av[1], bv), PMul(Tail(av), bv))
          : av \in {a}, bv \in {b} })

(* bounds on pi used only to decide the sign of a finite value *)
PiLo == <<25, 8>>
PiHi == <<22, 7>>

(* a lower (up = FALSE) or upper (up = TRUE) bound of the term x *)
TermBound(x, up) ==
    Val({ RMul(<<xv[2], xv[3]>>,
               IF xv[1] >= 0
               THEN RPow(IF (xv[2] > 0) = up THEN PiHi ELSE PiLo, xv[1])
               ELSE RInv(RPow(IF (xv[2] > 0) = up THEN PiLo ELSE PiHi, 0 - xv[1])))
          : xv \in {x} })

RECURSIVE PBound(_, _)
PBound(a, up) ==
    Val({ IF av = <<>> THEN RZero
          ELSE RAdd(TermBound(av[1], up), PBound(Tail(av), up))
          : av \in {a} })

(* sign of a finite value: exact for a single term, by the bounds on pi
   otherwise (no value when the bounds do not decide it) *)
FinSign(a) ==
    Val({ IF av = <<>> THEN 0
          ELSE IF Len(av) = 1 THEN (IF av[1][2] > 0 THEN 1 ELSE 0 - 1)
          ELSE CHOOSE s \in {0 - 1, 1} :
                  IF s = 1 THEN PBound(av, FALSE)[1] > 0 ELSE PBound(av, TRUE)[1] < 0
          : av \in {a} })

(* ------------------------------------------------------------------ *)
(* double values                                                       *)
(* ------------------------------------------------------------------ *)
Fin(c) == [k |-> "fin", c |-> c]
NaN == [k |-> "nan", c |-> <<>>]
PInf == [k |-> "pinf", c |-> <<>>]
NInf == [k |-> "ninf", c |-> <<>>]

IsFin(x) == x.k = "fin"
IsNaN(x) == x.k = "nan"
IsInf(x) == x.k \in {"pinf", "ninf"}

Mono(n, d, e) == Fin(PTerm(e, RNorm(n, d)))
Num(n) == Fin(IF n = 0 THEN <<>> ELSE <<<<0, n, 1>>>>)
Zero == Num(0)
One == Num(1)
Half == Mono(1, 2, 0)
PI == Mono(1, 1, 1)
HALFPI == Mono(1, 2, 1)

IsZero(x) == x = Zero
SingleTerm(x) == Val({ ~IsFin(xv) \/ Len(xv.c) <= 1 : xv \in {x} })

Sign(x) ==
    Val({ IF xv.k = "pinf" THEN 1
          ELSE IF xv.k = "ninf" THEN 0 - 1
          ELSE IF xv.k = "nan" THEN 0
          ELSE FinSign(xv.c)
          : xv \in {x} })

InfOfSign(s) == IF s > 0 THEN PInf ELSE NInf

Neg(x) ==
    Val({ IF IsNaN(xv) THEN NaN
          ELSE IF xv.k = "pinf" THEN NInf
          ELSE IF xv.k = "ninf" THEN PInf
          ELSE Fin(PNeg(xv.c))
          : xv \in {x} })

Add(x, y) ==
    Val({ IF IsNaN(xv) \/ IsNaN(yv) THEN NaN
          ELSE IF IsInf(xv) THEN (IF IsInf(yv) /\ yv.k # xv.k THEN NaN ELSE xv)
          ELSE IF IsInf(yv) THEN yv
          ELSE Fin(PAdd(xv.c, yv.c))
          : xv \in {x}, yv \in {y} })

Sub(x, y) == Add(x, Neg(y))

Mul(x, y) ==
    Val({ IF IsNaN(xv) \/ IsNaN(yv) THEN NaN
          ELSE IF IsInf(xv) \/ IsInf(yv)
               THEN (IF IsZero(xv) \/ IsZero(yv) THEN NaN
                     ELSE InfOfSign(Sign(xv) * Sign(yv)))
          ELSE Fin(PMul(xv.c, yv.c))
          : xv \in {x}, yv \in {y} })

(* quotient of finite values; the divisor must be a single nonzero term *)
FinDiv(a, b) ==
    Val({ PScale(<<0 - yv[1], IF yv[2] < 0 THEN 0 - yv[3] ELSE yv[3], IAbs(yv[2])>>, a)
          : yv \in {CHOOSE z \in {b[1]} : Len(b) = 1} })

Div(x, y) ==
    Val({ IF IsNaN(xv) \/ IsNaN(yv) THEN NaN
          ELSE IF IsInf(xv) THEN (IF IsInf(yv) THEN NaN
                                  ELSE IF IsZero(yv) THEN xv
                                  ELSE InfOfSign(Sign(xv) * Sign(yv)))
          ELSE IF IsInf(yv) THEN Zero
          ELSE IF IsZero(yv) THEN (IF IsZero(xv) THEN NaN ELSE InfOfSign(Sign(xv)))
          ELSE Fin(FinDiv(xv.c, yv.c))
          : xv \in {x}, yv \in {y} })

Less(x, y) ==
    Val({ IF IsNaN(xv) \/ IsNaN(yv) THEN FALSE
          ELSE IF xv.k = "pinf" \/ yv.k = "ninf" THEN FALSE
          ELSE IF xv.k = "ninf" \/ yv.k = "pinf" THEN TRUE
          ELSE Sign(Sub(yv, xv)) > 0
          : xv \in {x}, yv \in {y} })

Fabs(x) ==
    Val({ IF IsNaN(xv) THEN NaN
          ELSE IF IsInf(xv) THEN PInf
          ELSE IF Sign(xv) < 0 THEN Neg(xv) ELSE xv
          : xv \in {x} })

(* x < 10^-n, without forming 10^n *)
RECURSIVE LessPow10(_, _)
LessPow10(x, n) ==
    Val({ IF ~Less(xv, One) THEN FALSE
          ELSE IF n = 0 THEN TRUE
          ELSE LessPow10(Mul(xv, Num(10)), n - 1)
          : xv \in {x} })

(* sqrt of a value that is a single term with a rational square; no value
   for other finite arguments *)
SqrtArg(x) ==
    Val({ \/ ~IsFin(xv)
          \/ IsZero(xv)
          \/ /\ Len(xv.c) = 1
             /\ xv.c[1][1] % 2 = 0
             /\ xv.c[1][2] < 0 \/ (IsSquare(xv.c[1][2]) /\ IsSquare(xv.c[1][3]))
          : xv \in {x} })

Sqrt(x) ==
    Val({ IF IsNaN(xv) \/ xv.k = "ninf" THEN NaN
          ELSE IF xv.k = "pinf" THEN PInf
          ELSE IF IsZero(xv) THEN Zero
          ELSE Val({ IF yv[2] < 0 THEN NaN
                     ELSE Mono(ISqrt(yv[2]), ISqrt(yv[3]), yv[1] \div 2)
                     : yv \in {CHOOSE z \in {xv.c[1]} : SqrtArg(xv)} })
          : xv \in {x} })

(* the number q of quarter turns in an angle q * pi/2; no value otherwise *)
IsQuarter(x) ==
    Val({ /\ IsFin(xv)
          /\ \/ xv.c = <<>>
             \/ /\ Len(xv.c) = 1
                /\ xv.c[1][1] = 1
                /\ (2 * xv.c[1][2]) % xv.c[1][3] = 0
          : xv \in {x} })
Quarters(x) ==
    Val({ CHOOSE q \in {IF xv.c = <<>> THEN 0 ELSE (2 * xv.c[1][2]) \div xv.c[1][3]} :
              IsQuarter(xv)
          : xv \in {x} })
TrigArg(x) == Val({ ~IsFin(xv) \/ IsQuarter(xv) : xv \in {x} })

Cos(x) ==
    Val({ IF ~IsFin(xv) THEN NaN
          ELSE Val({ IF q = 0 THEN One ELSE IF q = 2 THEN Num(0 - 1) ELSE Zero
                     : q \in {Quarters(xv) % 4} })
          : xv \in {x} })
Sin(x) ==
    Val({ IF ~IsFin(xv) THEN NaN
          ELSE Val({ IF q = 1 THEN One ELSE IF q = 3 THEN Num(0 - 1) ELSE Zero
                     : q \in {Quarters(xv) % 4} })
          : xv \in {x} })

(* ------------------------------------------------------------------ *)
(* Fresnel.h : fresnel(t, &S, &C), the Fresnel sine and cosine         *)
(* integrals; an odd function, tabulated in hundredths at the integers *)
(* ------------------------------------------------------------------ *)
FresnelC == <<78, 49, 61, 50, 56, 50, 55, 50>>
FresnelS == <<44, 34, 50, 42, 50, 45, 50, 46>>

FresnelArg(t) ==
    Val({ \/ ~IsFin(tv)
          \/ IsZero(tv)
          \/ /\ Len(tv.c) = 1
             /\ tv.c[1][1] = 0
             /\ tv.c[1][3] = 1
             /\ IAbs(tv.c[1][2]) <= Len(FresnelC)
          : tv \in {t} })

fresnel(t) ==
    Val({ IF IsNaN(tv) THEN [S |-> NaN, C |-> NaN]
          ELSE IF tv.k = "pinf" THEN [S |-> Half, C |-> Half]
          ELSE IF tv.k = "ninf" THEN [S |-> Neg(Half), C |-> Neg(Half)]
          ELSE IF IsZero(tv) THEN [S |-> Zero, C |-> Zero]
          ELSE Val({ IF n > 0
                     THEN [S |-> Mono(FresnelS[n], 100, 0),
                           C |-> Mono(FresnelC[n], 100, 0)]
                     ELSE [S |-> Mono(0 - FresnelS[0 - n], 100, 0),
                           C |-> Mono(0 - FresnelC[0 - n], 100, 0)]
                     : n \in {CHOOSE i \in {tv.c[1][2]} : FresnelArg(tv)} })
          : tv \in {t} })

(* ------------------------------------------------------------------ *)
(* Vectors and matrices (Eigen Vector2d, Matrix2d)                     *)
(* ------------------------------------------------------------------ *)
VAdd(u, v) ==
    Val({ <<Add(uv[1], vv[1]), Add(uv[2], vv[2])>> : uv \in {u}, vv \in {v} })
VSub(u, v) ==
    Val({ <<Sub(uv[1], vv[1]), Sub(uv[2], vv[2])>> : uv \in {u}, vv \in {v} })
VScale(a, v) ==
    Val({ <<Mul(av, vv[1]), Mul(av, vv[2])>> : av \in {a}, vv \in {v} })
VDiv(v, a) ==
    Val({ <<Div(vv[1], av), Div(vv[2], av)>> : vv \in {v}, av \in {a} })
Dot(u, v) ==
    Val({ Add(Mul(uv[1], vv[1]), Mul(uv[2], vv[2])) : uv \in {u}, vv \in {v} })
MatVec(m, v) ==
    Val({ <<Dot(mv[1], vv), Dot(mv[2], vv)>> : mv \in {m}, vv \in {v} })
MatScale(m, a) ==
    Val({ <<VScale(av, mv[1]), VScale(av, mv[2])>> : mv \in {m}, av \in {a} })
(* column vector times row vector *)
Outer(u, r) ==
    Val({ <<VScale(uv[1], rv), VScale(uv[2], rv)>> : uv \in {u}, rv \in {r} })
MatSub(m, n) ==
    Val({ <<VSub(mv[1], nv[1]), VSub(mv[2], nv[2])>> : mv \in {m}, nv \in {n} })
MatAdd(m, n) ==
    Val({ <<VAdd(mv[1], nv[1]), VAdd(mv[2], nv[2])>> : mv \in {m}, nv \in {n} })
(* the matrix with columns u and v *)
Cols(u, v) ==
    Val({ <<<<uv[1], vv[1]>>, <<uv[2], vv[2]>>>> : uv \in {u}, vv \in {v} })
NegCol0(m) ==
    Val({ <<<<Neg(mv[1][1]), mv[1][2]>>, <<Neg(mv[2][1]), mv[2][2]>>>> : mv \in {m} })

(* ------------------------------------------------------------------ *)
(* Clothoid.h : the parameter indices                                  *)
(* ------------------------------------------------------------------ *)
X == 0
Y == 1
ANGLE == 2
LENGTH == 3
CURVATURE == 4
DCURVATURE == 5
numParams == 6
ParamIdx == 0..(numParams - 1)

(* the exponents of the thresholds 1e-12 and 1e-6 of _paramsChanged *)
ArcEps == 12
FlatEps == 6

(* AngleUtils::toRange(angle): the angle brought into [-PI, PI) *)
toRange(a) ==
    Val({ IF ~IsFin(av) THEN NaN
          ELSE Mono(((Quarters(av) + 2) % 4) - 2, 2, 1)
          : av \in {a} })

_startPos(p) == <<p[X], p[Y]>>

(* ------------------------------------------------------------------ *)
(* Clothoid::_paramsChanged : the derived state of a parameter vector  *)
(* (in a nest of Val, the bindings are read from the last one upwards) *)
(* ------------------------------------------------------------------ *)
IsArc(p) == LessPow10(Fabs(p[DCURVATURE]), ArcEps)
IsFlat(p) == IsArc(p) /\ LessPow10(Fabs(p[CURVATURE]), FlatEps)

(* mat << cosA, -sinA, sinA, cosA *)
Rotation(cosA, sinA) ==
    Val({ <<<<c, Neg(s)>>, <<s, c>>>> : c \in {cosA}, s \in {sinA} })
(* mat << -cosA, -sinA, -sinA, cosA *)
Reflection(cosA, sinA) ==
    Val({ <<<<Neg(c), Neg(s)>>, <<Neg(s), c>>>> : c \in {cosA}, s \in {sinA} })

(* _startShift = _startPos() - _mat * startcs *)
WithStartShift(p, c, startcs) ==
    Val({ [cv EXCEPT !.startShift = VSub(_startPos(p), MatVec(cv.mat, startcs))]
          : cv \in {c} })

FlatCache(p) ==
    WithStartShift(p,
        [arc |-> TRUE, flat |-> TRUE, t1 |-> Zero, tdiff |-> One,
         mat |-> Rotation(Cos(p[ANGLE]), Sin(p[ANGLE])),
         startShift |-> <<Zero, Zero>>],
        <<Zero, Zero>>)

(* ArcCache with the rotation by the start angle itself, the quarter turn
   of line 71 left out: the variant C7 is tested against *)
ArcCacheNoQuarterTurn(p) ==
    Val({ WithStartShift(p,
              [arc |-> TRUE, flat |-> FALSE, t1 |-> Zero, tdiff |-> p[CURVATURE],
               mat |-> Rotation(Div(Cos(a), p[CURVATURE]), Div(Sin(a), p[CURVATURE])),
               startShift |-> <<Zero, Zero>>],
              <<One, Zero>>)
          : a \in {p[ANGLE]} })

ArcCache(p) ==
    Val({ WithStartShift(p,
              [arc |-> TRUE, flat |-> FALSE, t1 |-> Zero, tdiff |-> p[CURVATURE],
               mat |-> Rotation(Div(Cos(a), p[CURVATURE]), Div(Sin(a), p[CURVATURE])),
               startShift |-> <<Zero, Zero>>],
              <<One, Zero>>)
          : a \in {Sub(p[ANGLE], HALFPI)} })

ClothoidScale(p) == Sqrt(Fabs(Div(One, Mul(PI, p[DCURVATURE]))))

ClothoidAngleShift(p, t1, tdiff) ==
    Val({ IF Less(Zero, tdiff) THEN Sub(p[ANGLE], sq) ELSE Add(p[ANGLE], sq)
          : sq \in {Mul(Mul(t1, t1), HALFPI)} })

ClothoidMat(scale, tdiff, angleShift) ==
    Val({ IF Less(Zero, tdiff) THEN Rotation(cosAS, sinAS) ELSE Reflection(cosAS, sinAS)
          : cosAS \in {Mul(Mul(PI, scale), Cos(angleShift))},
            sinAS \in {Mul(Mul(PI, scale), Sin(angleShift))} })

ClothoidCache(p) ==
    Val({ Val({ Val({
        WithStartShift(p,
            [arc |-> FALSE, flat |-> FALSE, t1 |-> t1, tdiff |-> tdiff,
             mat |-> ClothoidMat(scale, tdiff, angleShift),
             startShift |-> <<Zero, Zero>>],
            <<f.C, f.S>>)
        : angleShift \in {ClothoidAngleShift(p, t1, tdiff)}, f \in {fresnel(t1)} })
        : t1 \in {Mul(p[CURVATURE], scale)}, tdiff \in {Mul(p[DCURVATURE], scale)} })
        : scale \in {ClothoidScale(p)} })

paramsChanged(p) ==
    Val({ IF IsArc(pv)
          THEN (IF LessPow10(Fabs(pv[CURVATURE]), FlatEps)
                THEN FlatCache(pv) ELSE ArcCache(pv))
          ELSE ClothoidCache(pv)
          : pv \in {p} })

(* every cos, sin, sqrt, quotient and fresnel of _paramsChanged has a value *)
ClothoidCacheDefined(p) ==
    /\ SingleTerm(p[DCURVATURE])
    /\ SqrtArg(Fabs(Div(One, Mul(PI, p[DCURVATURE]))))
    /\ Val({ Val({ FresnelArg(t1) /\ TrigArg(ClothoidAngleShift(p, t1, tdiff))
             : t1 \in {Mul(p[CURVATURE], scale)},
               tdiff \in {Mul(p[DCURVATURE], scale)} })
             : scale \in {ClothoidScale(p)} })

paramsChangedDefined(p) ==
    Val({ IF IsArc(pv)
          THEN (IF LessPow10(Fabs(pv[CURVATURE]), FlatEps) THEN TrigArg(pv[ANGLE])
                ELSE TrigArg(Sub(pv[ANGLE], HALFPI)) /\ SingleTerm(pv[CURVATURE]))
          ELSE ClothoidCacheDefined(pv)
          : pv \in {p} })

(* ------------------------------------------------------------------ *)
(* Clothoid::isValid, eval, angle, curvature                          *)
(* ------------------------------------------------------------------ *)
(* isValid with `<= 0.` for `< 0.`: the variant C5 is tested against *)
isValidPositive(p) == IF Less(Zero, p[LENGTH]) THEN TRUE ELSE FALSE

isValid(p) == IF Less(p[LENGTH], Zero) THEN FALSE ELSE TRUE

angle(p, s) ==
    Val({ Add(p[ANGLE], Mul(sv, Add(p[CURVATURE], Mul(Mul(Half, sv), p[DCURVATURE]))))
          : sv \in {s} })

curvature(p, s) == Add(p[CURVATURE], Mul(s, p[DCURVATURE]))

(* eval(s, &pos, 0, 0) *)
pos(c, s) ==
    Val({ Val({
        VAdd(cv.startShift,
             MatVec(cv.mat,
                    IF cv.flat THEN <<t, Zero>>
                    ELSE IF cv.arc THEN <<Cos(t), Sin(t)>>
                    ELSE Val({ <<f.C, f.S>> : f \in {fresnel(t)} })))
        : t \in {Add(cv.t1, Mul(s, cv.tdiff))} })
        : cv \in {c} })

posDefined(c, s) ==
    Val({ IF cv.flat THEN TRUE
          ELSE IF cv.arc THEN TrigArg(Add(cv.t1, Mul(s, cv.tdiff)))
          ELSE FresnelArg(Add(cv.t1, Mul(s, cv.tdiff)))
          : cv \in {c} })

(* eval(s, 0, &der, 0) and eval(s, 0, 0, &der2) *)
der(p, s) == Val({ <<Cos(a), Sin(a)>> : a \in {angle(p, s)} })
der2(p, s) ==
    Val({ VScale(Add(p[CURVATURE], Mul(s, p[DCURVATURE])), <<Neg(Sin(a)), Cos(a)>>)
          : a \in {angle(p, s)} })

(* CurvePrimitive: endPos, endAngle, endCurvature evaluate at length() *)
endPos(p, c) == pos(c, p[LENGTH])
endAngle(p) == angle(p, p[LENGTH])
endCurvature(p) == curvature(p, p[LENGTH])

(* ------------------------------------------------------------------ *)
(* Clothoid::derivativeAt : the 6x2 matrix written into `out`          *)
(* ------------------------------------------------------------------ *)
ParamDerZero ==
    (X :> <<Zero, Zero>>) @@ (Y :> <<Zero, Zero>>) @@ (ANGLE :> <<Zero, Zero>>)
        @@ (LENGTH :> <<Zero, Zero>>) @@ (CURVATURE :> <<Zero, Zero>>)
        @@ (DCURVATURE :> <<Zero, Zero>>)

(* derivativeHead with the sign of line 189 lost: the variant C6 is tested
   against *)
derivativeHeadNoSign(p, c, s) ==
    Val({ [ParamDerZero EXCEPT ![X][1] = One,
                               ![Y][2] = One,
                               ![ANGLE] = <<diff[2], diff[1]>>]
          : diff \in {VSub(pos(c, s), _startPos(p))} })

(* the rows set before the regime branch *)
derivativeHead(p, c, s) ==
    Val({ [ParamDerZero EXCEPT ![X][1] = One,
                               ![Y][2] = One,
                               ![ANGLE] = <<Neg(diff[2]), diff[1]>>]
          : diff \in {VSub(pos(c, s), _startPos(p))} })

derivativeFlat(p, s) ==
    Val({ [curv |-> VScale(Mul(Mul(Half, sv), sv), nsinCos),
           dcurv |-> VScale(Mul(Mul(Mul(Div(Half, Num(3)), sv), sv), sv), nsinCos)]
          : sv \in {s}, nsinCos \in {<<Neg(Sin(p[ANGLE])), Cos(p[ANGLE])>>} })

derivativeArc(p, s) ==
    Val({ Val({ Val({
        [curv |-> VDiv(<<Sub(Add(Mul(curvs, cosCur), sinStart), sinCur),
                         Sub(Add(Mul(curvs, sinCur), cosCur), cosStart)>>,
                       Mul(curv, curv)),
         dcurv |-> VDiv(<<Sub(Add(cosStart, Mul(hm1, cosCur)), Mul(curvs, sinCur)),
                          Add(Add(sinStart, Mul(hm1, sinCur)), Mul(curvs, cosCur))>>,
                        Mul(Mul(curv, curv), curv))]
        : hm1 \in {Sub(Mul(Mul(curvs, curvs), Half), One)} })
        : cosCur \in {Cos(curAngle)}, sinCur \in {Sin(curAngle)},
          cosStart \in {Cos(p[ANGLE])}, sinStart \in {Sin(p[ANGLE])},
          curvs \in {Mul(curv, s)} })
        : curv \in {p[CURVATURE]}, curAngle \in {angle(p, s)} })

(* dmatdc, with its first column negated when _tdiff < 0 *)
derivativeMatC(p, c, scale) ==
    Val({ Val({ Val({
        IF Less(c.tdiff, Zero) THEN NegCol0(dmatdc) ELSE dmatdc
        : dmatdc \in {MatScale(<<<<sinAS, cosAS>>, <<Neg(cosAS), sinAS>>>>,
                               Div(Mul(Mul(PI, scale), p[CURVATURE]), p[DCURVATURE]))} })
        : cosAS \in {Cos(angleShift)}, sinAS \in {Sin(angleShift)} })
        : angleShift \in {ClothoidAngleShift(p, c.t1, c.tdiff)} })

(* dmatdd, with its first column negated when _tdiff < 0 *)
derivativeMatD(p, c, scale) ==
    Val({ Val({ Val({ Val({
        IF Less(c.tdiff, Zero) THEN NegCol0(dmatdd) ELSE dmatdd
        : dmatdd \in {MatScale(<<<<dd00, dd01>>, <<Neg(dd01), dd00>>>>,
                               Div(Mul(HALFPI, scale),
                                   Mul(p[DCURVATURE], p[DCURVATURE])))} })
        : dd00 \in {Sub(Mul(Neg(p[DCURVATURE]), cosAS), Mul(curvSqr, sinAS))},
          dd01 \in {Sub(Mul(p[DCURVATURE], sinAS), Mul(curvSqr, cosAS))} })
        : cosAS \in {Cos(angleShift)}, sinAS \in {Sin(angleShift)},
          curvSqr \in {Mul(p[CURVATURE], p[CURVATURE])} })
        : angleShift \in {ClothoidAngleShift(p, c.t1, c.tdiff)} })

(* the 2x2 matrix `result` of the non-degenerate branch *)
derivativeResult(p, c, s, t, scale) ==
    Val({ Val({ Val({
        MatAdd(MatSub(Outer(MatVec(c.mat, dcs), dtdx),
                      Outer(MatVec(c.mat, dstartcs), dt1dx)),
               Cols(MatVec(derivativeMatC(p, c, scale), csdiff),
                    MatVec(derivativeMatD(p, c, scale), csdiff)))
        : dtdx \in {VAdd(dt1dx, <<Zero, Mul(Mul(scale, s), Half)>>)},
          csdiff \in {VSub(<<f.C, f.S>>, <<f1.C, f1.S>>)},
          dstartcs \in {<<Cos(basicAngle), Sin(basicAngle)>>},
          dcs \in {<<Cos(tAngle), Sin(tAngle)>>} })
        : dt1dx \in {<<scale, Div(Mul(Neg(p[CURVATURE]), scale),
                                  Mul(Num(2), p[DCURVATURE]))>>},
          f \in {fresnel(t)},
          f1 \in {fresnel(c.t1)},
          basicAngle \in {Mul(Mul(HALFPI, c.t1), c.t1)},
          tAngle \in {Mul(Mul(HALFPI, tv), tv)} })
        : tv \in {t} })

derivativeClothoid(p, c, s) ==
    Val({ (* out.block<2, 2>(CURVATURE, 0) = result.transpose() *)
          [curv |-> <<result[1][1], result[2][1]>>,
           dcurv |-> <<result[1][2], result[2][2]>>]
          : result \in {derivativeResult(p, c, s, Add(c.t1, Mul(s, c.tdiff)),
                                         ClothoidScale(p))} })

derivativeAt(p, c, s) ==
    Val({ IF c.flat
          THEN Val({ [h EXCEPT ![CURVATURE] = rf.curv, ![DCURVATURE] = rf.dcurv]
                     : rf \in {derivativeFlat(p, s)} })
          ELSE IF c.arc
          THEN Val({ [h EXCEPT ![CURVATURE] = ra.curv, ![DCURVATURE] = ra.dcurv]
                     : ra \in {derivativeArc(p, s)} })
          ELSE Val({ [h EXCEPT ![CURVATURE] = rc.curv, ![CURVATURE + 1] = rc.dcurv]
                     : rc \in {derivativeClothoid(p, c, s)} })
          : h \in {derivativeHead(p, c, s)} })

derivativeAtDefined(p, c, s) ==
    /\ posDefined(c, s)
    /\ IF c.flat THEN TrigArg(p[ANGLE])
       ELSE IF c.arc
            THEN TrigArg(angle(p, s)) /\ TrigArg(p[ANGLE]) /\ SingleTerm(p[CURVATURE])
       ELSE /\ SingleTerm(p[DCURVATURE])
            /\ FresnelArg(c.t1)
            /\ TrigArg(ClothoidAngleShift(p, c.t1, c.tdiff))

(* ------------------------------------------------------------------ *)
(* Clothoid::Clothoid, trim, flip as functions of the object's state   *)
(* ------------------------------------------------------------------ *)

ctorParams(start, startAngle, length, curv, endCurv) ==
    (X :> start[1]) @@ (Y :> start[2]) @@ (ANGLE :> toRange(startAngle))
        @@ (LENGTH :> length) @@ (CURVATURE :> curv)
        @@ (DCURVATURE :> Div(Sub(endCurv, curv), length))

Clothoid(start, startAngle, length, curv, endCurv) ==
    Val({ [params |-> p, cache |-> paramsChanged(p)]
          : p \in {ctorParams(start, startAngle, length, curv, endCurv)} })

trimParams(p, c, sFrom, sTo) ==
    Val({ Val({ Val({
        [p2 EXCEPT ![LENGTH] = Sub(sTo, sFrom), ![X] = newStart[1], ![Y] = newStart[2]]
        : p2 \in {[p1 EXCEPT ![CURVATURE] = curvature(p1, sFrom)]} })
        : p1 \in {[p EXCEPT ![ANGLE] = angle(p, sFrom)]} })
        : newStart \in {pos(c, sFrom)} })

trim(p, c, sFrom, sTo) ==
    Val({ [params |-> q, cache |-> paramsChanged(q)]
          : q \in {trimParams(p, c, sFrom, sTo)} })

flipParams(p, c) ==
    Val({ Val({ Val({
        [p2 EXCEPT ![X] = newStart[1], ![Y] = newStart[2]]
        : p2 \in {[p1 EXCEPT ![CURVATURE] = Neg(endCurvature(p1))]} })
        : p1 \in {[p EXCEPT ![ANGLE] = Add(PI, endAngle(p))]} })
        : newStart \in {endPos(p, c)} })

(* flip without its call of _paramsChanged: the variant C1 is tested against *)
flipStaleCache(p, c) == [params |-> flipParams(p, c), cache |-> c]

flip(p, c) ==
    Val({ [params |-> q, cache |-> paramsChanged(q)] : q \in {flipParams(p, c)} })

(* ------------------------------------------------------------------ *)
(* Arguments offered to the calls                                       *)
(* ------------------------------------------------------------------ *)
(* constructor calls <<start, startAngle, length, curvature, endCurvature>>:
   straight lines, circular arcs and clothoids, of positive, zero and
   negative length, with the start angle inside and outside [-PI, PI) *)
CtorCalls ==
    { <<<<Zero, Zero>>, Zero, One, Zero, Zero>>,
      <<<<One, Num(2)>>, Mul(Num(7), HALFPI), PI, Zero, Zero>>,
      <<<<One, Num(2)>>, Zero, Num(0 - 1), Zero, Zero>>,
      <<<<Zero, Zero>>, Zero, Zero, Zero, Zero>>,
      <<<<Zero, Zero>>, Zero, Num(5), Zero, Zero>>,
      <<<<Zero, Zero>>, Zero, PI, One, One>>,
      <<<<One, Num(2)>>, Mul(Num(7), HALFPI), PI, Num(0 - 1), Num(0 - 1)>>,
      <<<<One, Num(2)>>, HALFPI, One, PI, PI>>,
      <<<<Zero, Zero>>, Zero, One, Zero, PI>>,
      <<<<One, Num(2)>>, Mul(Num(7), HALFPI), One, PI, Zero>>,
      <<<<One, Num(2)>>, PI, Num(0 - 1), Zero, PI>>,
      <<<<Zero, Zero>>, HALFPI, Zero, Zero, PI>>,
      <<<<One, Num(2)>>, HALFPI, Zero, PI, Zero>> }
FromLengths == {Zero, One}
ToLengths == {Zero, PI}

(* ------------------------------------------------------------------ *)
(* State                                                               *)
(* ------------------------------------------------------------------ *)
VARIABLES
    _params,      \* the parameter vector
    _arc, _flat, _t1, _tdiff, _mat, _startShift,   \* the derived state
    out,          \* the caller's ParamDer matrix
    last,         \* the last call made and its arguments
    log           \* the mutating calls made, each with the state it found

vars == <<_params, _arc, _flat, _t1, _tdiff, _mat, _startShift, out, last, log>>

Cache == [arc |-> _arc, flat |-> _flat, t1 |-> _t1, tdiff |-> _tdiff,
          mat |-> _mat, startShift |-> _startShift]

Call(op, a, b) == [op |-> op, a |-> a, b |-> b]

Install(o) ==
    /\ _params' = o.params
    /\ _arc' = o.cache.arc
    /\ _flat' = o.cache.flat
    /\ _t1' = o.cache.t1
    /\ _tdiff' = o.cache.tdiff
    /\ _mat' = o.cache.mat
    /\ _startShift' = o.cache.startShift

Init ==
    \E call \in CtorCalls :
        /\ paramsChangedDefined(ctorParams(call[1], call[2], call[3], call[4], call[5]))
        /\ \E o \in {Clothoid(call[1], call[2], call[3], call[4], call[5])} :
            /\ _params = o.params
            /\ _arc = o.cache.arc
            /\ _flat = o.cache.flat
            /\ _t1 = o.cache.t1
            /\ _tdiff = o.cache.tdiff
            /\ _mat = o.cache.mat
            /\ _startShift = o.cache.startShift
        /\ out = ParamDerZero
        /\ last = Call("Clothoid", call[3], call[5])
        /\ log = <<>>

Trim ==
    \E sFrom \in FromLengths, sTo \in ToLengths :
        /\ Len(log) < MaxOps
        /\ posDefined(Cache, sFrom)
        /\ paramsChangedDefined(trimParams(_params, Cache, sFrom, sTo))
        /\ \E o \in {trim(_params, Cache, sFrom, sTo)} : Install(o)
        /\ last' = Call("trim", sFrom, sTo)
        /\ log' = Append(log, [op |-> "trim", a |-> sFrom, b |-> sTo,
                               params |-> _params, cache |-> Cache])
        /\ UNCHANGED out

Flip ==
    /\ Len(log) < MaxOps
    /\ posDefined(Cache, _params[LENGTH])
    /\ paramsChangedDefined(flipParams(_params, Cache))
    /\ \E o \in {flip(_params, Cache)} : Install(o)
    /\ last' = Call("flip", Zero, Zero)
    /\ log' = Append(log, [op |-> "flip", a |-> Zero, b |-> Zero,
                           params |-> _params, cache |-> Cache])
    /\ UNCHANGED out

DerivativeAt ==
    \E s \in FromLengths :
        /\ derivativeAtDefined(_params, Cache, s)
        /\ out' = derivativeAt(_params, Cache, s)
        /\ last' = Call("derivativeAt", s, Zero)
        /\ UNCHANGED <<_params, _arc, _flat, _t1, _tdiff, _mat, _startShift, log>>

Next == Trim \/ Flip \/ DerivativeAt

Spec == Init /\ [][Next]_vars

(* ------------------------------------------------------------------ *)
(* Properties                                                          *)
(* ------------------------------------------------------------------ *)
(* the last trim or flip made, with the state it found *)
Prev == log[Len(log)]
(* the state found by the trim or flip before the last one *)
Prev2 == log[Len(log) - 1]
(* the parameters are all finite numbers *)
FiniteParams(p) == \A i \in ParamIdx : IsFin(p[i])
(* arc-length offsets at which the accessors are compared *)
Offsets == {Zero, One, HALFPI, PI}

(* C1: after the constructor and after every trim and flip the derived state
   is the one _paramsChanged computes from the current parameters; _arc is
   |DCURVATURE| < 1e-12 and _flat is _arc and |CURVATURE| < 1e-6, so that
   _flat implies _arc. *)
C1_CacheFresh ==
    /\ Cache = paramsChanged(_params)
    /\ _arc = LessPow10(Fabs(_params[DCURVATURE]), ArcEps)
    /\ _flat = (_arc /\ LessPow10(Fabs(_params[CURVATURE]), FlatEps))
    /\ _flat => _arc

(* a clothoid that was trimmed, then flipped *)
C1_Witness ==
    /\ Len(log) = 2
    /\ log[1].op = "trim"
    /\ log[2].op = "flip"
    /\ ~_arc
    /\ FiniteParams(_params)
    /\ _params # log[2].params

(* C2: in every reachable state position(0) is the stored start position. *)
C2_StartReproduced == pos(Cache, Zero) = _startPos(_params)

(* C3: in every reachable state the stored start angle is in the range of
   toRange.  Stated for parameters that are finite numbers and for the closed
   interval [-PI, PI], which holds every value toRange returns. *)
C3_AngleNormalized ==
    FiniteParams(_params) =>
        ~Less(_params[ANGLE], Neg(PI)) /\ ~Less(PI, _params[ANGLE])

(* C4: after flip(); flip() the six parameters have the values they had
   before the two calls, and position(s) is as before.  Stated for parameters
   that were finite numbers before the two calls. *)
C4_FlipTwice ==
    (Len(log) >= 2 /\ Prev.op = "flip" /\ Prev2.op = "flip"
        /\ FiniteParams(Prev2.params)) =>
        /\ _params = Prev2.params
        /\ \A s \in Offsets :
              posDefined(Cache, s) => pos(Cache, s) = pos(Prev2.cache, s)

(* C5: isValid() is false exactly when the constructor was given a negative
   length; after trim(sFrom, sTo) it is true exactly when sTo >= sFrom; flip
   leaves it as it was. *)
C5_ValidIffLengthNotNegative ==
    /\ last.op = "Clothoid" => (isValid(_params) <=> ~Less(last.a, Zero))
    /\ (Len(log) > 0 /\ Prev.op = "trim") =>
          (isValid(_params) <=> ~Less(Prev.b, Prev.a))
    /\ (Len(log) > 0 /\ Prev.op = "flip") =>
          (isValid(_params) <=> isValid(Prev.params))

(* a segment trimmed with sTo < sFrom, then flipped, is not valid *)
C5_Witness ==
    /\ Len(log) = 2
    /\ log[1].op = "trim"
    /\ Less(log[1].b, log[1].a)
    /\ isValid(log[1].params)
    /\ log[2].op = "flip"
    /\ ~isValid(_params)

(* C6: derivativeAt(s) sets row X to (1, 0), row Y to (0, 1), row ANGLE to
   (-dy, dx) for (dx, dy) = position(s) - start, and row LENGTH to (0, 0);
   it changes neither the parameters nor the derived state. *)
C6_DerivativeRows ==
    [][last'.op = "derivativeAt" =>
          /\ out'[X] = <<One, Zero>>
          /\ out'[Y] = <<Zero, One>>
          /\ out'[ANGLE] = <<Neg(Sub(pos(Cache, last'.a)[2], _params[Y])),
                             Sub(pos(Cache, last'.a)[1], _params[X])>>
          /\ out'[LENGTH] = <<Zero, Zero>>
          /\ UNCHANGED <<_params, _arc, _flat, _t1, _tdiff, _mat, _startShift>>]_vars

(* the Jacobian of a trimmed or flipped clothoid, away from its start *)
C6_Witness ==
    /\ last.op = "derivativeAt"
    /\ Len(log) > 0
    /\ ~_arc
    /\ FiniteParams(_params)
    /\ out[ANGLE][1] # Zero

(* C7: a segment with |DCURVATURE| < 1e-12 and |CURVATURE| >= 1e-6 has
   position(s) = start + (1/k) (sin(a + k s) - sin a, cos a - cos(a + k s));
   the segment ((0, 0), 0, PI, 1, 1) is such an arc and its position(PI/2)
   is (1, 1). *)
ArcScenario == ctorParams(<<Zero, Zero>>, Zero, PI, One, One)

ArcFormula(p, s) ==
    VAdd(_startPos(p),
         VDiv(<<Sub(Sin(Add(p[ANGLE], Mul(p[CURVATURE], s))), Sin(p[ANGLE])),
                Sub(Cos(p[ANGLE]), Cos(Add(p[ANGLE], Mul(p[CURVATURE], s))))>>,
              p[CURVATURE]))

C7_ArcPosition ==
    /\ (_arc /\ ~_flat) =>
          \A s \in Offsets :
              posDefined(Cache, s) => pos(Cache, s) = ArcFormula(_params, s)
    /\ _params = ArcScenario =>
          (_arc /\ ~_flat /\ pos(Cache, HALFPI) = <<One, One>>)

(* the scenario's arc, flipped: it starts at (0, 2) and runs back
   through (1, 1) *)
C7_Witness ==
    /\ Len(log) = 1
    /\ Prev.op = "flip"
    /\ Prev.params = ArcScenario
    /\ _arc /\ ~_flat
    /\ pos(Cache, HALFPI) = <<One, One>>

(* C9: trim(sFrom, sTo) sets the start to the old position(sFrom), the angle
   to the old angle(sFrom), the curvature to the old curvature(sFrom), the
   length to sTo - sFrom and keeps DCURVATURE; so angle(u) and curvature(u)
   become the old angle(sFrom + u) and curvature(sFrom + u), and
   trim(0, length) changes no parameter. *)
C9_Trim ==
    (Len(log) > 0 /\ Prev.op = "trim") =>
        /\ _startPos(_params) = pos(Prev.cache, Prev.a)
        /\ _params[ANGLE] = angle(Prev.params, Prev.a)
        /\ _params[CURVATURE] = curvature(Prev.params, Prev.a)
        /\ _params[LENGTH] = Sub(Prev.b, Prev.a)
        /\ _params[DCURVATURE] = Prev.params[DCURVATURE]
        /\ \A u \in Offsets :
              /\ angle(_params, u) = angle(Prev.params, Add(Prev.a, u))
              /\ curvature(_params, u) = curvature(Prev.params, Add(Prev.a, u))
        /\ (Prev.a = Zero /\ Prev.b = Prev.params[LENGTH]) => _params = Prev.params

(* C10: flip() sets the start to the old position(length), the angle to
   PI + the old angle(length), the curvature to minus the old
   curvature(length) and keeps LENGTH and DCURVATURE, hence _arc and
   isValid(); so curvature(u) becomes minus the old curvature(length - u) and
   angle(u) becomes PI + the old angle(length - u). *)
C10_Flip ==
    (Len(log) > 0 /\ Prev.op = "flip") =>
        /\ _startPos(_params) = pos(Prev.cache, Prev.params[LENGTH])
        /\ _params[ANGLE] = Add(PI, angle(Prev.params, Prev.params[LENGTH]))
        /\ _params[CURVATURE] = Neg(curvature(Prev.params, Prev.params[LENGTH]))
        /\ _params[LENGTH] = Prev.params[LENGTH]
        /\ _params[DCURVATURE] = Prev.params[DCURVATURE]
        /\ _arc = Prev.cache.arc
        /\ isValid(_params) = isValid(Prev.params)
        /\ \A u \in Offsets :
              /\ curvature(_params, u)
                    = Neg(curvature(Prev.params, Sub(Prev.params[LENGTH], u)))
              /\ angle(_params, u)
                    = Add(PI, angle(Prev.params, Sub(Prev.params[LENGTH], u)))

(* ------------------------------------------------------------------ *)
(* The extent of the failures of C2, C4, C9 and C10: each of them holds *)
(* of the segments whose DCURVATURE, the quotient formed by the         *)
(* constructor, is a finite number, C4 up to a full turn of the angle.  *)
(* ------------------------------------------------------------------ *)
FiniteSlope == IsFin(_params[DCURVATURE])
StartReproducedIfFiniteSlope == FiniteSlope => C2_StartReproduced
TrimIfFiniteSlope == FiniteSlope => C9_Trim
FlipIfFiniteSlope == FiniteSlope => C10_Flip
FlipTwiceUpToFullTurn ==
    (Len(log) >= 2 /\ Prev.op = "flip" /\ Prev2.op = "flip" /\ FiniteSlope) =>
        /\ [_params EXCEPT ![ANGLE] = Sub(@, Add(PI, PI))] = Prev2.params
        /\ \A s \in Offsets :
              posDefined(Cache, s) => pos(Cache, s) = pos(Prev2.cache, s)
====
